---- MODULE Spec2Model ----
(***************************************************************************)
(* Loreweaver (src/src/lib.rs): the prompt operation of the Loom trait,    *)
(* the response budget of the model catalogue, and the storage contract.   *)
(*                                                                         *)
(* Option<T> is a sequence of length 0 (None) or 1 (Some).  A u128 is a    *)
(* record [wrapped, n]: n is the value while it fits the checker's         *)
(* integers; wrapped marks the value an unchecked u128 subtraction leaves  *)
(* after wrapping around 2^128.  Timestamps are left out: no operation     *)
(* reads them.                                                             *)
(***************************************************************************)
EXTENDS Integers, Sequences, FiniteSets, TLC

\* ---------------------------------------------------------------- bounds
MaxCalls == 2           \* prompt calls that can be in flight at once
MaxPrompts == 2         \* prompt calls started in one behaviour of Spec
MaxSeq == 4             \* prompt calls made one after the other in SpecSeq
MaxOverride == 3000     \* largest custom_max_tokens tried on max_words

\* ------------------------------------------------------------- constants
U16Max == 65535         \* StoryPart::context_tokens is a u16

None == <<>>
Some(x) == <<x>>

Ids == {"A", "B"}
Calls == 1..MaxCalls
ModelSet == {"GPT3", "GPT4"}
Systems == {"sys"}
Msgs == {"hi", "go"}
TokenSamples == {0, 1, 1000, 4095, 4096, 4097, 5000, 8192, 8193, U16Max}
Replies == {"ok", "no"}
Usernames == {"Bob"}
Pseudos == {None, Some("-the-bard")}

\* ------------------------------------------------------------ data types
ContextMessage(role, username, content) ==
    [role |-> role, account_id |-> None, username |-> username, content |-> content]

StoryPart(players, context_tokens, context_messages) ==
    [players |-> players, context_tokens |-> context_tokens,
     context_messages |-> context_messages]

\* #[derive(Default)] for StoryPart
DefaultStoryPart == StoryPart(<<>>, 0, <<>>)

\* (mutant) the default segment opens with a narration
unwrap_or_default_seeded(opt) ==
    IF opt = None
    THEN [players |-> <<>>, context_tokens |-> 0,
          context_messages |-> << [role |-> "system", account_id |-> << >>,
                                   username |-> << >>, content |-> "Once"] >>]
    ELSE opt[1]

unwrap_or_default(opt) == IF opt = None THEN DefaultStoryPart ELSE opt[1]

\* ------------------------------------------------------- model catalogue
name(model) == IF model = "GPT3" THEN "gpt-3.5-turbo" ELSE "gpt-4"

max_context_tokens(model) == IF model = "GPT3" THEN 4096 ELSE 8192

U128(n) == [wrapped |-> FALSE, n |-> n]
\* what (capacity - tokens_in_context) / 3 is after the subtraction wrapped:
\* floor((2^128 - d) / 3) for the deficit d, beyond the checker's integers
Wrapped128 == [wrapped |-> TRUE, n |-> 0]

\* the u128 subtraction of default_max_response_tokens underflows
SubOverflows(model, tokens_in_context) ==
    tokens_in_context > max_context_tokens(model)

\* (mutant) a quarter of the remaining capacity instead of a third
default_max_response_tokens_div4(model, tokens_in_context) ==
    IF SubOverflows(model, tokens_in_context)
    THEN Wrapped128
    ELSE U128((max_context_tokens(model) - tokens_in_context) \div 4)

default_max_response_tokens(model, tokens_in_context) ==
    IF SubOverflows(model, tokens_in_context)
    THEN Wrapped128
    ELSE U128((max_context_tokens(model) - tokens_in_context) \div 3)

\* (x as f64 * 0.75) as u128: exact below 2^53; every wrapped quotient
\* rounds to 2^126 as an f64 product
MulThreeQuarters(x) ==
    IF x.wrapped THEN Wrapped128 ELSE U128((x.n * 3) \div 4)

\* (mutant) a custom value is returned as it is
max_words_keeps_override(model, custom_max_tokens, context_tokens) ==
    IF custom_max_tokens # None
    THEN U128(custom_max_tokens[1])
    ELSE MulThreeQuarters(default_max_response_tokens(model, context_tokens))

\* Option::unwrap_or takes its argument by value: the default is computed
\* (and its subtraction evaluated) whether or not a custom value is given
max_words(model, custom_max_tokens, context_tokens) ==
    LET dflt == default_max_response_tokens(model, context_tokens)
        max_tokens == IF custom_max_tokens = None THEN dflt
                      ELSE U128(custom_max_tokens[1])
    IN  MulThreeQuarters(max_tokens)

\* Display of a u128
FormatU128(x) ==
    IF x.wrapped THEN "85070591730234615865843651857942052864" ELSE ToString(x.n)

\* ---------------------------------------------------------- token counter
\* a stored text of n tokens, named by its length
TextLengths == (TokenSamples \cup {999}) \ {0}
Text(n) == IF n = 0 THEN "" ELSE "text" \o ToString(n)

\* p50k_base: the empty string has no token, Text(n) has n, and each of the
\* words used as a message or a reply is one token of the vocabulary
count_tokens(s) ==
    IF s = "" THEN 0
    ELSE IF \E n \in TextLengths : s = Text(n)
         THEN CHOOSE n \in TextLengths : s = Text(n)
         ELSE 1

RECURSIVE SumTokens(_)
SumTokens(msgs) ==
    IF msgs = <<>> THEN 0
    ELSE count_tokens(msgs[1].content) + SumTokens(Tail(msgs))

\* --------------------------------------------------------------- storage
get_last_story_part(st, weaving_id) == st[weaving_id]

save_story_part(st, weaving_id, story_part, increment) ==
    [st EXCEPT ![weaving_id] = Some(story_part)]

\* ---------------------------------------------------------- role mapping
ValidRole(role) == role \in {"system", "assistant", "user"}

\* (mutant) a role that is none of the three is taken for a user's
WrapperRole_coerce(role) ==
    CASE role = "system" -> "System"
      [] role = "assistant" -> "Assistant"
      [] OTHER -> "User"

\* From<String> for WrapperRole, then From<WrapperRole> for Role; BadRole
\* stands for the panic of the last arm
WrapperRole(role) ==
    CASE role = "system" -> "System"
      [] role = "assistant" -> "Assistant"
      [] role = "user" -> "User"
      [] OTHER -> "BadRole"

\* ------------------------------------------------------- prompt, locals
\* (mutant) the two parts of the name are joined by a space
username_with_nick_spaced(username, pseudo_username) ==
    IF pseudo_username = None THEN username ELSE (username \o " ") \o pseudo_username[1]

\* the display name of the caller
username_with_nick(username, pseudo_username) ==
    IF pseudo_username = None THEN username ELSE username \o pseudo_username[1]

\* (mutant) the user message is put in front of the history
PushUser_front(part, nick, msg) ==
    [part EXCEPT !.context_messages =
        <<ContextMessage("user", Some(nick), msg)>> \o @]

PushUser(part, nick, msg) ==
    [part EXCEPT !.context_messages =
        Append(@, ContextMessage("user", Some(nick), msg))]

\* (mutant) the reply is counted into context_tokens as it is pushed
PushAssistant_counted(part, content) ==
    [part EXCEPT !.context_tokens = (@ + 1) % (U16Max + 1),
                 !.context_messages =
                     Append(@, [role |-> "assistant", account_id |-> << >>,
                                username |-> << >>, content |-> content])]

PushAssistant(part, content) ==
    [part EXCEPT !.context_messages =
        Append(@, ContextMessage("assistant", None, content))]

RequestMessage(role, content, nm) == [role |-> role, content |-> content, name |-> nm]

SystemEntry(system) == RequestMessage("System", system, None)

RenderEntry(m, nick) ==
    RequestMessage(WrapperRole(m.role), m.content,
                   Some(IF m.role = "system" THEN "Loreweaver" ELSE nick))

\* (mutant) the history is rendered without its last message, the new one
RenderHistory_without_new(part, nick) ==
    [i \in 1..(Len(part.context_messages) - 1) |->
        RenderEntry(part.context_messages[i], nick)]

\* the entries prompt renders from the messages of the story part, the new
\* user message included
RenderHistory(part, nick) ==
    [i \in 1..Len(part.context_messages) |-> RenderEntry(part.context_messages[i], nick)]

\* a message of the segment makes From<String> for WrapperRole panic
RenderPanics(part) ==
    \E i \in 1..Len(part.context_messages) :
        WrapperRole(part.context_messages[i].role) = "BadRole"

\* (mutant) the tokens of the new user message are counted in
BudgetTokens_with_user(part_loaded, msg) ==
    part_loaded.context_tokens + count_tokens(msg)

\* the third argument of max_words in prompt
BudgetTokens(part_loaded, msg) == part_loaded.context_tokens

\* do_prompt's trailing instruction
Instruction(max_w) ==
    RequestMessage("System", "Respond with " \o FormatU128(max_w) \o " words or less", None)

\* (mutant) every call loads the segment of one fixed key
LoadKey_shared(t) == "A"

\* the key prompt loads from, and the key it saves under
LoadKey(t) == t.weaving_id

SaveKey(t) == t.weaving_id

\* (mutant) the save asks for a new version
SaveIncrementTrue == TRUE

\* the increment argument of prompt's save_story_part
SaveIncrement == FALSE

\* ---------------------------------------------------------------- state
VARIABLES
    store,            \* Storage: weaving id -> Option<StoryPart>, the last part
    task,             \* the prompt call running in each slot: its arguments and
                      \* locals, and as history the collaborator calls it made
                      \* (log), its number (no) and the calls in flight when it
                      \* started (met)
    started,          \* prompt calls started so far
    store0,           \* history: the storage at the start
    hist,             \* history: per id, the turns persisted, in save order
    raced,            \* history: per id, two calls on it were in flight together
    last_writer,      \* history: per id, the slot whose save was applied last
    client,           \* OPENAI_CLIENT: the calls holding a read guard of the lock
    fn_in, fn_out     \* a direct call of max_words: arguments and result

vars == <<store, task, started, store0, hist, raced, last_writer, client,
          fn_in, fn_out>>

NoResult == [tag |-> "None", val |-> ""]
Ok(text) == [tag |-> "Ok", val |-> text]
Err(e) == [tag |-> "Err", val |-> e]
Panic(why) == [tag |-> "Panic", val |-> why]

IdleTask ==
    [pc |-> "idle", system |-> "", weaving_id |-> "", msg |-> "",
     username |-> "", pseudo_username |-> None, nick |-> "",
     model |-> "", loaded |-> None, story_part |-> DefaultStoryPart,
     request_messages |-> <<>>, max_response_words |-> U128(0),
     request_model |-> "", response_content |-> "", result |-> NoResult,
     llm_out |-> "", save_out |-> "", log |-> <<>>, no |-> 0, met |-> {}]

NoCall == [model |-> "GPT3", custom |-> None, tokens |-> 0]
NoOut == [tag |-> "None", val |-> U128(0)]

\* ------------------------------------------------------- initial storage
SegOld ==
    StoryPart(<<7>>, 1000,
              <<ContextMessage("user", Some("Ann"), Text(999)),
                ContextMessage("assistant", None, "upon")>>)

SegBig ==
    StoryPart(<<>>, 5000, <<ContextMessage("system", None, Text(5000))>>)

SegBad ==
    StoryPart(<<>>, 1, <<ContextMessage("narrator", None, "lore")>>)

InitStores ==
    {[i \in Ids |-> IF i = "A" THEN a ELSE None] :
        a \in {None, Some(SegOld), Some(SegBig), Some(SegBad)}}

Init ==
    /\ store \in InitStores
    /\ store0 = store
    /\ task = [c \in Calls |-> IdleTask]
    /\ started = 0
    /\ hist = [i \in Ids |-> <<>>]
    /\ raced = [i \in Ids |-> FALSE]
    /\ last_writer = [i \in Ids |-> 0]
    /\ client = {}
    /\ fn_in = NoCall
    /\ fn_out = NoOut

\* (mutant) the client is taken with the write half of the lock
CanRead_exclusive(readers) == readers = {}

\* OPENAI_CLIENT.read(): nothing ever takes the write half of the lock, so
\* a read guard is granted whoever else holds one
CanRead(readers) == TRUE

InFlight(c) == task[c].pc \in {"load", "llm", "save"}

Finish(t, res) == [t EXCEPT !.pc = "done", !.result = res]

Logged(t, entry) == [t EXCEPT !.log = Append(@, entry)]

\* ------------------------------------------------------------- prompt
\* prompt is called: the model is read from the configuration and
\* get_last_story_part is issued
Prompt(c, system, weaving_id, msg, username, pseudo_username, m) ==
    /\ task[c].pc = "idle"
    /\ \A d \in Calls : d < c => task[d].pc # "idle"
    /\ started' = started + 1
    /\ task' = [task EXCEPT ![c] =
          [IdleTask EXCEPT !.pc = "load", !.system = system,
                           !.weaving_id = weaving_id, !.msg = msg,
                           !.username = username,
                           !.pseudo_username = pseudo_username,
                           !.nick = username_with_nick(username, pseudo_username),
                           !.model = m, !.no = started + 1,
                           !.met = {task[d].no : d \in {e \in Calls : InFlight(e)}}]]
    /\ raced' = [raced EXCEPT ![weaving_id] =
                    @ \/ \E d \in Calls : InFlight(d) /\ task[d].weaving_id = weaving_id]
    /\ UNCHANGED <<store, store0, hist, last_writer, client, fn_in, fn_out>>

Frame == UNCHANGED <<store, started, store0, hist, raced, last_writer,
                     fn_in, fn_out>>

\* get_last_story_part returns an error
LoadFails(c) ==
    /\ task[c].pc = "load"
    /\ task' = [task EXCEPT ![c] =
          Finish(Logged(@, <<"load", LoadKey(@), FALSE>>), Err("Storage"))]
    /\ UNCHANGED client
    /\ Frame

\* the locals of prompt between the load and the LLM call
Loaded(t, opt) ==
    LET part0 == unwrap_or_default(opt)
        part1 == PushUser(part0, t.nick, t.msg)
    IN  [Logged(t, <<"load", LoadKey(t), TRUE>>) EXCEPT
            !.loaded = opt, !.story_part = part1]

\* get_last_story_part returns, a stored message has a role that is no role
LoadThenBadRole(c) ==
    /\ task[c].pc = "load"
    /\ LET t == Loaded(task[c], get_last_story_part(store, LoadKey(task[c])))
       IN  /\ RenderPanics(t.story_part)
           /\ task' = [task EXCEPT ![c] = Finish(t, Panic("Bad OpenAI role"))]
    /\ UNCHANGED client
    /\ Frame

\* get_last_story_part returns, the budget subtraction overflows and the
\* build checks integer overflow (debug-assertions): the call panics
LoadThenOverflow(c) ==
    /\ task[c].pc = "load"
    /\ LET t == Loaded(task[c], get_last_story_part(store, LoadKey(task[c])))
       IN  /\ ~RenderPanics(t.story_part)
           /\ SubOverflows(t.model, BudgetTokens(unwrap_or_default(t.loaded), t.msg))
           /\ task' = [task EXCEPT ![c] =
                 Finish([t EXCEPT !.request_messages =
                            <<SystemEntry(t.system)>> \o RenderHistory(t.story_part, t.nick)],
                        Panic("attempt to subtract with overflow"))]
    /\ UNCHANGED client
    /\ Frame

\* get_last_story_part returns: the request is rendered, the budget computed
\* (a build that does not check integer overflow wraps the subtraction), the
\* model read again and do_prompt takes a read guard of the client and sends
\* the request (every field the message and request builders require is
\* set, so the builds succeed); the guard is held until the LLM call returns
LoadThenSend(c, m2) ==
    /\ task[c].pc = "load"
    /\ LET t == Loaded(task[c], get_last_story_part(store, LoadKey(task[c])))
           tokens == BudgetTokens(unwrap_or_default(t.loaded), t.msg)
           max_w == max_words(t.model, None, tokens)
       IN  /\ ~RenderPanics(t.story_part)
           /\ CanRead(client)
           /\ task' = [task EXCEPT ![c] =
                 [t EXCEPT !.pc = "llm",
                           !.request_messages =
                               (<<SystemEntry(t.system)>> \o RenderHistory(t.story_part, t.nick))
                               \o <<Instruction(max_w)>>,
                           !.max_response_words = max_w,
                           !.request_model = name(m2),
                           !.log = Append(@, <<"llm", name(m2), TRUE>>)]]
    /\ client' = client \cup {c}
    /\ Frame

\* (mutant) the LLM call returns an error and is made again
LLMFails_retry(c) ==
    /\ task[c].pc = "llm"
    /\ Len(task[c].log) < 4
    /\ task' = [task EXCEPT ![c] =
          [@ EXCEPT !.llm_out = "error",
                    !.log = Append(@, <<"llm", task[c].request_model, TRUE>>)]]
    /\ UNCHANGED client
    /\ Frame

\* (mutant) the LLM call returns an error and the part with the new user
\* message is stored before the error is returned
LLMFails_saves_user(c) ==
    /\ task[c].pc = "llm"
    /\ task' = [task EXCEPT ![c] =
          Finish([@ EXCEPT !.llm_out = "error"], Err("FailedPromptOpenAI"))]
    /\ client' = client \ {c}
    /\ store' = save_story_part(store, SaveKey(task[c]), task[c].story_part, SaveIncrement)
    /\ UNCHANGED <<started, store0, hist, raced, last_writer, fn_in, fn_out>>

\* the LLM call returns an error
LLMFails(c) ==
    /\ task[c].pc = "llm"
    /\ task' = [task EXCEPT ![c] =
          Finish([@ EXCEPT !.llm_out = "error"], Err("FailedPromptOpenAI"))]
    /\ client' = client \ {c}
    /\ Frame

\* the LLM returns a response whose list of choices is empty: choices[0]
LLMNoChoice(c) ==
    /\ task[c].pc = "llm"
    /\ task' = [task EXCEPT ![c] =
          Finish([@ EXCEPT !.llm_out = "no choice"], Panic("index out of bounds"))]
    /\ client' = client \ {c}
    /\ Frame

\* the first choice has no content
LLMNoContent(c) ==
    /\ task[c].pc = "llm"
    /\ task' = [task EXCEPT ![c] =
          Finish([@ EXCEPT !.llm_out = "no content"], Err("FailedToGetContent"))]
    /\ client' = client \ {c}
    /\ Frame

\* (mutant) the assistant message is never pushed
SavedPart_user_only(t, content) == t.story_part

\* (mutant) the part is read again before the save and both messages are
\* pushed on what is stored by then
SavedPart_reread(t, content) ==
    PushAssistant(PushUser(unwrap_or_default(get_last_story_part(store, LoadKey(t))),
                           t.nick, t.msg), content)

\* the story part handed to save_story_part
SavedPart(t, content) == PushAssistant(t.story_part, content)

\* the first choice has content: the assistant message is pushed and
\* save_story_part is issued
LLMReplies(c, content) ==
    /\ task[c].pc = "llm"
    /\ task' = [task EXCEPT ![c] =
          [@ EXCEPT !.pc = "save", !.response_content = content,
                    !.llm_out = "content",
                    !.story_part = SavedPart(task[c], content),
                    !.log = Append(@, <<"save", SaveKey(task[c]),
                                        SavedPart(task[c], content), SaveIncrement>>)]]
    /\ client' = client \ {c}
    /\ Frame

\* save_story_part returns an error
SaveFails(c) ==
    /\ task[c].pc = "save"
    /\ task' = [task EXCEPT ![c] =
          Finish([@ EXCEPT !.save_out = "error"], Err("Storage"))]
    /\ UNCHANGED client
    /\ Frame

\* save_story_part returns: the part is stored and prompt returns the reply
SaveReturns(c) ==
    /\ task[c].pc = "save"
    /\ LET t == task[c]
           id == SaveKey(t)
       IN  /\ store' = save_story_part(store, id, t.story_part, SaveIncrement)
           /\ task' = [task EXCEPT ![c] =
                 Finish([@ EXCEPT !.save_out = "ok"], Ok(t.response_content))]
           /\ hist' = [hist EXCEPT ![t.weaving_id] =
                         Append(@, [msg |-> t.msg, nick |-> t.nick,
                                    reply |-> t.response_content])]
           /\ last_writer' = [last_writer EXCEPT ![id] = c]
    /\ UNCHANGED <<started, store0, raced, client, fn_in, fn_out>>

\* the caller takes the result
Return(c) ==
    /\ task[c].pc = "done"
    /\ task' = [task EXCEPT ![c] = IdleTask]
    /\ UNCHANGED client
    /\ Frame

\* ------------------------------------------------- direct max_words calls
\* max_words returns (a build that does not check integer overflow wraps)
CallMaxWords ==
    /\ fn_out.tag = "None"
    /\ fn_out' = [tag |-> "Ok", val |-> max_words(fn_in.model, fn_in.custom, fn_in.tokens)]
    /\ UNCHANGED <<store, task, started, store0, hist, raced, last_writer, client, fn_in>>

\* the subtraction of the eagerly computed default overflows and the build
\* checks integer overflow
CallMaxWordsPanics ==
    /\ fn_out.tag = "None"
    /\ SubOverflows(fn_in.model, fn_in.tokens)
    /\ fn_out' = [tag |-> "Panic", val |-> U128(0)]
    /\ UNCHANGED <<store, task, started, store0, hist, raced, last_writer, client, fn_in>>

\* ------------------------------------------------------- specifications
\* Spec: up to MaxCalls prompt calls in flight at once, MaxPrompts in all
Next ==
    \/ \E c \in Calls, system \in Systems, weaving_id \in Ids, msg \in {"hi"},
          username \in Usernames, pseudo_username \in {None}, m \in {"GPT3"} :
          started < MaxPrompts
          /\ Prompt(c, system, weaving_id, msg, username, pseudo_username, m)
    \/ \E c \in Calls : LoadFails(c)
    \/ \E c \in Calls : LoadThenBadRole(c)
    \/ \E c \in Calls : LoadThenOverflow(c)
    \/ \E c \in Calls, m2 \in {"GPT3"} : LoadThenSend(c, m2)
    \/ \E c \in Calls : LLMFails(c)
    \/ \E c \in Calls : LLMNoChoice(c)
    \/ \E c \in Calls : LLMNoContent(c)
    \/ \E c \in Calls, content \in Replies : LLMReplies(c, content)
    \/ \E c \in Calls : SaveFails(c)
    \/ \E c \in Calls : SaveReturns(c)
    \/ \E c \in Calls : Return(c)

Spec == Init /\ [][Next]_vars

\* SpecSeq: up to MaxSeq prompt calls, each made after the one before returned
NextSeq ==
    \/ \E system \in Systems, weaving_id \in Ids, msg \in Msgs,
          username \in Usernames, pseudo_username \in {None}, m \in {"GPT3"} :
          started < MaxSeq
          /\ \A d \in Calls : task[d].pc = "idle"
          /\ Prompt(1, system, weaving_id, msg, username, pseudo_username, m)
    \/ LoadFails(1)
    \/ LoadThenBadRole(1)
    \/ LoadThenOverflow(1)
    \/ \E m2 \in {"GPT3"} : LoadThenSend(1, m2)
    \/ LLMFails(1)
    \/ LLMNoChoice(1)
    \/ LLMNoContent(1)
    \/ \E content \in Replies : LLMReplies(1, content)
    \/ SaveFails(1)
    \/ SaveReturns(1)
    \/ Return(1)

SpecSeq == Init /\ [][NextSeq]_vars

\* SpecOne: one prompt call, every argument and both models, on a wider
\* choice of stored segments
OneSegs ==
    {SegOld, SegBig, SegBad}
    \cup {StoryPart(<<7>>, t, <<ContextMessage("user", Some("Ann"), Text(t))>>) :
            t \in TokenSamples}

InitOne ==
    /\ store \in {[i \in Ids |-> IF i = "A" THEN a ELSE None] :
                     a \in {None} \cup {Some(p) : p \in OneSegs}}
    /\ store0 = store
    /\ task = [c \in Calls |-> IdleTask]
    /\ started = 0
    /\ hist = [i \in Ids |-> <<>>]
    /\ raced = [i \in Ids |-> FALSE]
    /\ last_writer = [i \in Ids |-> 0]
    /\ client = {}
    /\ fn_in = NoCall
    /\ fn_out = NoOut

NextOne ==
    \/ \E system \in Systems, weaving_id \in Ids, msg \in Msgs,
          username \in Usernames, pseudo_username \in Pseudos, m \in ModelSet :
          started < 1
          /\ Prompt(1, system, weaving_id, msg, username, pseudo_username, m)
    \/ LoadFails(1)
    \/ LoadThenBadRole(1)
    \/ LoadThenOverflow(1)
    \/ \E m2 \in ModelSet : LoadThenSend(1, m2)
    \/ LLMFails(1)
    \/ LLMNoChoice(1)
    \/ LLMNoContent(1)
    \/ \E content \in Replies : LLMReplies(1, content)
    \/ SaveFails(1)
    \/ SaveReturns(1)
    \/ Return(1)

SpecOne == InitOne /\ [][NextOne]_vars

\* SpecBudget: max_words called once, on every token count a u16 holds with
\* no custom value, and on every custom value up to MaxOverride
BudgetInputs ==
    [model : ModelSet, custom : {None}, tokens : 0..U16Max]
    \cup [model : ModelSet, custom : {Some(x) : x \in 0..MaxOverride},
          tokens : TokenSamples]

InitBudget ==
    /\ store = [i \in Ids |-> None]
    /\ store0 = store
    /\ task = [c \in Calls |-> IdleTask]
    /\ started = 0
    /\ hist = [i \in Ids |-> <<>>]
    /\ raced = [i \in Ids |-> FALSE]
    /\ last_writer = [i \in Ids |-> 0]
    /\ client = {}
    /\ fn_in \in BudgetInputs
    /\ fn_out = NoOut

NextBudget ==
    \/ CallMaxWords
    \/ CallMaxWordsPanics

SpecBudget == InitBudget /\ [][NextBudget]_vars

\* ================================================================ claims
\* a save entry of a call's log
IsSave(e) == e[1] = "save"
Saves(t) == SelectSeq(t.log, IsSave)
Messages(opt) == unwrap_or_default(opt).context_messages

\* ---------------------------------------------------------------- C1
\* the step on which a collaborator reports a failure to call c: the load
\* (step 2), the LLM call (step 6), the missing content (step 7), the save
\* (step 9)
FailureStep(c) == LoadFails(c) \/ LLMFails(c) \/ LLMNoContent(c) \/ SaveFails(c)

C2_OkSavedOnePair ==
    \A c \in Calls :
        (task[c].pc = "done" /\ task[c].result.tag = "Ok") =>
            LET t == task[c]
                sv == Saves(t)
                old == Messages(t.loaded)
                n == Len(old)
            IN  /\ Len(sv) = 1
                /\ sv[1][2] = t.weaving_id
                /\ sv[1][4] = FALSE
                /\ LET ms == sv[1][3].context_messages
                   IN  /\ Len(ms) = n + 2
                       /\ SubSeq(ms, 1, n) = old
                       /\ ms[n + 1].role = "user"
                       /\ ms[n + 1].content = t.msg
                       /\ ms[n + 2].role = "assistant"
                       /\ ms[n + 2].content = t.result.val

\* a call on a stored segment of two messages returned Ok
C2_Witness ==
    \E c \in Calls :
        /\ task[c].pc = "done"
        /\ task[c].result = Ok("no")
        /\ task[c].msg = "go"
        /\ task[c].loaded = Some(SegOld)
        /\ Len(Messages(store[task[c].weaving_id])) = 4

\* ---------------------------------------------------------------- C3
\* the user and assistant messages a call appends
Pair(t) ==
    <<ContextMessage("user", Some(t.nick), t.msg),
      ContextMessage("assistant", None, t.response_content)>>

\* two calls of the same weaving id that were in flight together, loaded the
\* same segment and both returned Ok
LostUpdate(c, d) ==
    /\ c # d
    /\ task[c].pc = "done" /\ task[c].result.tag = "Ok"
    /\ task[d].pc = "done" /\ task[d].result.tag = "Ok"
    /\ task[c].weaving_id = task[d].weaving_id
    /\ task[c].loaded = task[d].loaded
    /\ task[c].no \in task[d].met

\* C3: when two overlapping prompt calls of one weaving id have loaded the
\* same segment and both returned Ok, the stored segment is the one saved
\* last: the loaded messages and the pair of the call that saved last, two
\* messages more than were loaded, the other call's pair not among the
\* messages after the loaded ones.
C3_LastSaveWins ==
    \A c, d \in Calls :
        (LostUpdate(c, d) /\ last_writer[task[c].weaving_id] = d) =>
            /\ store[task[d].weaving_id] =
                 Some([unwrap_or_default(task[d].loaded) EXCEPT
                          !.context_messages = @ \o Pair(task[d])])
            /\ Len(Messages(store[task[d].weaving_id])) =
                 Len(Messages(task[d].loaded)) + 2
            /\ task[c].result.val # task[d].result.val =>
                 \A i \in (Len(Messages(task[d].loaded)) + 1)
                          ..Len(Messages(store[task[d].weaving_id])) :
                     Messages(store[task[d].weaving_id])[i] # Pair(task[c])[2]

\* both calls of a race on a stored segment returned Ok with different
\* replies, and the reply of the one that saved first is not stored
C3_Witness ==
    \E c, d \in Calls :
        /\ LostUpdate(c, d)
        /\ last_writer[task[c].weaving_id] = d
        /\ task[c].loaded = Some(SegOld)
        /\ task[c].result = Ok("ok")
        /\ task[d].result = Ok("no")
        /\ Len(Messages(store[task[c].weaving_id])) = 4
        /\ Messages(store[task[c].weaving_id])[4].content = "no"

\* ---------------------------------------------------------------- C4
\* a segment after the turns h (each a msg, the display name and the reply)
\* were appended to it one after the other
RECURSIVE Replay(_, _)
Replay(part, h) ==
    IF h = <<>> THEN part
    ELSE Replay([part EXCEPT !.context_messages =
                    @ \o <<ContextMessage("user", Some(h[1].nick), h[1].msg),
                           ContextMessage("assistant", None, h[1].reply)>>],
                Tail(h))

\* what running the calls of weaving id i alone leaves stored: the segment
\* stored at the start, with the turns of its successful calls appended
Alone(i) == IF hist[i] = <<>> THEN store0[i] ELSE Some(Replay(unwrap_or_default(store0[i]), hist[i]))

\* C4: whatever calls on other weaving ids run in between, as long as the
\* calls of one weaving id do not overlap each other the segment stored for
\* it is the one its own calls leave when run alone.
C4_IdentitiesIndependent ==
    \A i \in Ids : ~raced[i] => store[i] = Alone(i)

\* two calls on different weaving ids were in flight together, both returned
\* Ok, and each id holds its own turn only
C4_Witness ==
    \E c, d \in Calls :
        /\ task[c].pc = "done" /\ task[c].result.tag = "Ok"
        /\ task[d].pc = "done" /\ task[d].result.tag = "Ok"
        /\ task[c].weaving_id = "A" /\ task[d].weaving_id = "B"
        /\ task[c].no \in task[d].met
        /\ store0["A"] = Some(SegOld)
        /\ Len(Messages(store["A"])) = 4
        /\ Len(Messages(store["B"])) = 2

\* ---------------------------------------------------------------- C5
\* w = floor(0.75 * x)
IsThreeQuarters(w, x) == 4 * w <= 3 * x /\ 3 * x < 4 * (w + 1)

\* C5: with no custom value and prior context tokens from 0 up to the
\* model's capacity (4096 for GPT3, 8192 for GPT4), max_words returns
\* floor(0.75 * floor((capacity - tokens) / 3)); GPT3 with 1000 tokens has a
\* token budget of 1032 and a word budget of 774, GPT4 with 0 tokens 2730 and
\* 2047.
C5_DefaultWordBudget ==
    (fn_in.custom = None /\ fn_in.tokens <= max_context_tokens(fn_in.model)) =>
        /\ fn_out.tag # "Panic"
        /\ fn_out.tag = "Ok" =>
              LET cap == IF fn_in.model = "GPT3" THEN 4096 ELSE 8192
                  tb == (cap - fn_in.tokens) \div 3
              IN  /\ ~fn_out.val.wrapped
                  /\ IsThreeQuarters(fn_out.val.n, tb)
                  /\ (fn_in.model = "GPT3" /\ fn_in.tokens = 1000) =>
                        (tb = 1032 /\ fn_out.val.n = 774)
                  /\ (fn_in.model = "GPT4" /\ fn_in.tokens = 0) =>
                        (tb = 2730 /\ fn_out.val.n = 2047)
                  /\ default_max_response_tokens(fn_in.model, fn_in.tokens) = U128(tb)

\* max_words has returned 774 for GPT3 with 1000 prior tokens
C5_Witness ==
    /\ fn_in = [model |-> "GPT3", custom |-> None, tokens |-> 1000]
    /\ fn_out = [tag |-> "Ok", val |-> U128(774)]

C7_NoBudgetUnderflow ==
    \A c \in Calls :
        /\ task[c].result # Panic("attempt to subtract with overflow")
        /\ ~task[c].max_response_words.wrapped

\* ---------------------------------------------------------------- C8
\* C8: every segment a prompt call hands to save_story_part has
\* context_tokens equal to the sum of the token counts of its messages.
C8_TokensSumOfMessages ==
    \A c \in Calls :
        \A k \in 1..Len(Saves(task[c])) :
            Saves(task[c])[k][3].context_tokens =
                SumTokens(Saves(task[c])[k][3].context_messages)

\* ---------------------------------------------------------------- C9
\* the call has sent its request to the LLM
Sent(t) == t.pc \in {"llm", "save", "done"} /\ Len(t.log) >= 2

\* C9: the word budget of a call, and the number in the trailing instruction
\* of its request, is the default (no custom value) for the model read at the
\* start of the call and the context_tokens of the segment as loaded (0 when
\* nothing was stored); the tokens of the new user message are not counted.
C9_BudgetFromLoadedTokens ==
    \A c \in Calls :
        Sent(task[c]) =>
            LET t == task[c]
                tokens == IF t.loaded = None THEN 0 ELSE t.loaded[1].context_tokens
                cap == max_context_tokens(t.model)
                w == t.max_response_words
                last == t.request_messages[Len(t.request_messages)]
            IN  /\ tokens <= cap =>
                      /\ ~w.wrapped
                      /\ IsThreeQuarters(w.n, (cap - tokens) \div 3)
                      /\ last.content = "Respond with " \o ToString(w.n) \o " words or less"
                /\ tokens > cap => w.wrapped
                /\ last.role = "System"

\* a call on a segment of 1000 tokens sent "Respond with 774 words or less";
\* with the token of its user message counted the budget would be 773
C9_Witness ==
    \E c \in Calls :
        /\ Sent(task[c])
        /\ task[c].model = "GPT3"
        /\ task[c].loaded = Some(SegOld)
        /\ count_tokens(task[c].msg) = 1
        /\ task[c].max_response_words = U128(774)
        /\ task[c].request_messages[Len(task[c].request_messages)].content =
              "Respond with 774 words or less"
        /\ max_words("GPT3", None, 1001) = U128(773)

\* --------------------------------------------------------------- C10
\* C10: after N successful prompt calls made one after the other on a weaving
\* id that had no stored segment, the stored segment has exactly 2N messages,
\* user_1, assistant_1, ..., user_N, assistant_N in call order, and an empty
\* players roster (nothing is stored while N = 0).
C10_PairsInOrder ==
    \A i \in Ids :
        store0[i] = None =>
            LET n == Len(hist[i])
                ms == Messages(store[i])
            IN  /\ (n = 0) = (store[i] = None)
                /\ Len(ms) = 2 * n
                /\ \A k \in 1..n :
                      /\ ms[2 * k - 1].role = "user"
                      /\ ms[2 * k - 1].content = hist[i][k].msg
                      /\ ms[2 * k].role = "assistant"
                      /\ ms[2 * k].content = hist[i][k].reply
                /\ unwrap_or_default(store[i]).players = <<>>

\* MaxSeq calls on one id returned Ok, all with different turns
C10_Witness ==
    /\ store0["A"] = None
    /\ Len(hist["A"]) = MaxSeq
    /\ hist["A"][1].msg = "hi" /\ hist["A"][1].reply = "no"
    /\ hist["A"][2].msg = "go" /\ hist["A"][2].reply = "ok"
    /\ Len(Messages(store["A"])) = 2 * MaxSeq

\* --------------------------------------------------------------- C11
\* the segment a call loaded holds a message whose role is none of the three
HasOtherRole(opt) ==
    \E i \in 1..Len(Messages(opt)) : ~ValidRole(Messages(opt)[i].role)

IsLLM(e) == e[1] = "llm"

\* C11: the role mapping sends system, assistant and user one-to-one to
\* System, Assistant and User and maps no other role string to a role of the
\* LLM; a prompt call whose loaded segment holds a message of any other role
\* aborts having neither invoked the LLM nor saved, and storage is as it was.
C11_OtherRoleAborts ==
    /\ WrapperRole("system") = "System"
    /\ WrapperRole("assistant") = "Assistant"
    /\ WrapperRole("user") = "User"
    /\ \A r \in {"narrator", "tool", "", "System", "USER"} :
          WrapperRole(r) \notin {"System", "Assistant", "User"}
    /\ \A c \in Calls :
          LET t == task[c]
          IN  (InFlight(c) /\ t.log # <<>> /\ t.log[1][3] /\ HasOtherRole(t.loaded)) =>
                /\ t.pc = "done"
                /\ t.result.tag \notin {"Ok", "None"}
                /\ SelectSeq(t.log, IsLLM) = <<>>
                /\ Saves(t) = <<>>
                /\ t.request_messages = <<>>
    /\ \A c \in Calls :
          Sent(task[c]) =>
              \A i \in 1..Len(Messages(task[c].loaded)) :
                  LET r == Messages(task[c].loaded)[i].role
                  IN  /\ ValidRole(r)
                      /\ task[c].request_messages[i + 1].role =
                            (CASE r = "system" -> "System"
                               [] r = "assistant" -> "Assistant"
                               [] r = "user" -> "User")

\* a call that loaded the segment with a narrator's message has aborted
C11_Witness ==
    \E c \in Calls :
        /\ task[c].pc = "done"
        /\ task[c].loaded = Some(SegBad)
        /\ task[c].result = Panic("Bad OpenAI role")
        /\ task[c].log = <<<<"load", task[c].weaving_id, TRUE>>>>
        /\ store[task[c].weaving_id] = Some(SegBad)

\* --------------------------------------------------------------- C12
\* C12: the message list sent to the LLM is, in this order, one system-role
\* entry with the system directive, one entry per message of the loaded
\* segment in stored order, the entry of the new user message, and exactly
\* one trailing system-role entry with the budget instruction; its length is
\* the number of loaded messages plus three.
C12_RequestLayout ==
    \A c \in Calls :
        LET t == task[c]
            old == Messages(t.loaded)
            n == Len(old)
            req == t.request_messages
        IN  Sent(t) =>
              /\ Len(req) = n + 3
              /\ req[1].role = "System" /\ req[1].content = t.system
              /\ \A i \in 1..n :
                    /\ req[i + 1].content = old[i].content
                    /\ req[i + 1].role # "BadRole"
                    /\ (req[i + 1].role = "System") = (old[i].role = "system")
                    /\ (req[i + 1].role = "Assistant") = (old[i].role = "assistant")
              /\ req[n + 2].role = "User" /\ req[n + 2].content = t.msg
              /\ req[n + 3].role = "System"
              /\ req[n + 3].content =
                    "Respond with " \o FormatU128(t.max_response_words) \o " words or less"
              /\ \A i \in 1..(n + 2) :
                    req[i].content # req[n + 3].content

\* a request built over a loaded segment of two messages: five entries
C12_Witness ==
    \E c \in Calls :
        /\ task[c].pc = "llm"
        /\ task[c].loaded = Some(SegOld)
        /\ task[c].msg = "go"
        /\ Len(task[c].request_messages) = 5
        /\ task[c].request_messages[2].role = "User"
        /\ task[c].request_messages[3].role = "Assistant"
        /\ task[c].request_messages[4].content = "go"

\* --------------------------------------------------------------- C13
\* C13: a prompt call reports each failure with its own error: a failed load
\* as WeaveError::Storage, a failed LLM call as FailedPromptOpenAI, an LLM
\* response without usable text (a first choice without content, or no
\* choice at all) as FailedToGetContent, a failed save as WeaveError::Storage;
\* it returns Ok with the text only after the save succeeded.
C13_TypedErrors ==
    \A c \in Calls :
        LET t == task[c]
        IN  t.pc = "done" =>
              /\ (t.log # <<>> /\ ~t.log[1][3]) => t.result = Err("Storage")
              /\ t.llm_out = "error" => t.result = Err("FailedPromptOpenAI")
              /\ t.llm_out \in {"no content", "no choice"} =>
                    t.result = Err("FailedToGetContent")
              /\ t.save_out = "error" => t.result = Err("Storage")
              /\ t.result.tag = "Ok" =>
                    /\ t.save_out = "ok"
                    /\ t.result.val = t.response_content

\* --------------------------------------------------------------- C14
\* the display name of a call, from the arguments it was made with
DisplayName(t) ==
    IF t.pseudo_username = None THEN t.username
    ELSE t.username \o t.pseudo_username[1]

\* the user and assistant entries of a request carry the call's display name
\* whatever username their message stores, and the new user message is
\* handed to the save with that name
NamesOfTurns(t) ==
    LET old == Messages(t.loaded)
        n == Len(old)
        req == t.request_messages
    IN  /\ t.nick = DisplayName(t)
        /\ \A i \in 1..Len(req) :
              req[i].role \in {"User", "Assistant"} => req[i].name = Some(DisplayName(t))
        /\ \A i \in 1..n :
              old[i].role \in {"user", "assistant"} => req[i + 1].name = Some(DisplayName(t))
        /\ req[n + 2].name = Some(DisplayName(t))
        /\ \A k \in 1..Len(Saves(t)) :
              LET m == Saves(t)[k][3].context_messages[n + 1]
              IN  m.role = "user" /\ m.username = Some(DisplayName(t))

\* C14 (as stated): the display name is username followed by pseudo_username
\* with no separator, or username alone; the new user message is persisted
\* with it, every user-role and assistant-role entry of the request carries
\* it whatever username the message stores, and the system-role entries of
\* the request carry "Loreweaver".
C14_SystemEntriesNamed ==
    \A c \in Calls :
        LET t == task[c]
        IN  Sent(t) =>
              /\ NamesOfTurns(t)
              /\ \A i \in 1..Len(t.request_messages) :
                    t.request_messages[i].role = "System" =>
                        t.request_messages[i].name = Some("Loreweaver")

\* C14 (amended): as stated for the display name, the persisted user message
\* and the user-role and assistant-role entries; of the system-role entries,
\* those rendered from messages of the segment carry "Loreweaver", while the
\* directive entry and the budget instruction entry carry no name.
C14_RenderedNames ==
    \A c \in Calls :
        LET t == task[c]
            n == Len(Messages(t.loaded))
            req == t.request_messages
        IN  Sent(t) =>
              /\ NamesOfTurns(t)
              /\ \A i \in 1..n :
                    Messages(t.loaded)[i].role = "system" =>
                        req[i + 1].name = Some("Loreweaver")
              /\ req[1].name = None
              /\ req[n + 3].name = None

\* a request over a segment whose user message stores the username Ann, made
\* by Bob under a pseudonym: both old entries carry Bob's display name
C14_Witness ==
    \E c \in Calls :
        /\ task[c].pc = "save"
        /\ task[c].loaded = Some(SegOld)
        /\ SegOld.context_messages[1].username = Some("Ann")
        /\ task[c].pseudo_username = Some("-the-bard")
        /\ task[c].request_messages[2].name = Some("Bob-the-bard")
        /\ task[c].request_messages[3].name = Some("Bob-the-bard")
        /\ task[c].request_messages[4].name = Some("Bob-the-bard")
        /\ task[c].request_messages[1].name = None
        /\ task[c].story_part.context_messages[3].username = Some("Bob-the-bard")

\* --------------------------------------------------------------- C15
\* C15: a call for an id with no stored segment proceeds from the empty
\* default: the budget is derived with 0 tokens, the request holds exactly
\* the directive, the new user message and the budget instruction, and on
\* success the persisted segment is exactly [user, assistant] with an empty
\* players roster.
C15_EmptyDefault ==
    \A c \in Calls :
        LET t == task[c]
            words == IF t.model = "GPT3" THEN "1023" ELSE "2047"
        IN  (InFlight(c) /\ t.log # <<>> /\ t.log[1][3] /\ t.loaded = None) =>
              /\ Sent(t)
              /\ t.max_response_words = max_words(t.model, None, 0)
              /\ t.request_messages =
                    << [role |-> "System", content |-> t.system, name |-> None],
                       [role |-> "User", content |-> t.msg, name |-> Some(t.nick)],
                       [role |-> "System", name |-> None,
                        content |-> "Respond with " \o words \o " words or less"] >>
              /\ \A k \in 1..Len(Saves(t)) :
                    LET part == Saves(t)[k][3]
                    IN  /\ part.players = <<>>
                        /\ Len(part.context_messages) = 2
                        /\ part.context_messages[1].role = "user"
                        /\ part.context_messages[1].content = t.msg
                        /\ part.context_messages[2].role = "assistant"
                        /\ part.context_messages[2].content = t.response_content
              /\ t.result.tag = "Ok" => Len(Saves(t)) = 1

\* a first call on an id returned Ok under GPT4, having saved two messages
C15_Witness ==
    \E c \in Calls :
        /\ task[c].pc = "done"
        /\ task[c].loaded = None
        /\ task[c].model = "GPT4"
        /\ task[c].result = Ok("ok")
        /\ Len(task[c].request_messages) = 3
        /\ task[c].request_messages[3].content = "Respond with 2047 words or less"
        /\ Len(Saves(task[c])[1][3].context_messages) = 2

\* --------------------------------------------------------------- C16
\* C16: within one prompt call the collaborators are called in the order
\* load, LLM, save, each at most once; the LLM is not invoked unless the load
\* succeeded, nor a second time after it failed, and the save is not issued
\* unless the LLM call succeeded and returned content.
C16_CallOrder ==
    \A c \in Calls :
        LET t == task[c]
            l == t.log
        IN  /\ Len(l) <= 3
            /\ Len(l) >= 1 => l[1][1] = "load"
            /\ Len(l) >= 2 => l[2][1] = "llm" /\ l[1][3]
            /\ Len(l) >= 3 => l[3][1] = "save" /\ t.llm_out = "content"
            /\ t.llm_out \in {"error", "no choice", "no content"} =>
                  Len(l) = 2 /\ t.pc = "done"
            /\ t.pc = "save" => Len(l) = 3
            /\ t.pc = "llm" => Len(l) = 2 /\ t.llm_out = ""
            /\ t.result.tag = "Ok" => Len(l) = 3

\* one call went through load, LLM and save and returned Ok while another
\* stopped at its failed LLM call
C16_Witness ==
    \E c, d \in Calls :
        /\ task[c].pc = "done" /\ task[c].result.tag = "Ok"
        /\ task[c].log[1][1] = "load" /\ task[c].log[2][1] = "llm"
        /\ task[c].log[3][1] = "save"
        /\ task[d].pc = "done" /\ task[d].llm_out = "error"
        /\ Len(task[d].log) = 2

\* --------------------------------------------------------------- C17
\* C17: within one prompt call exactly one model descriptor is in effect: the
\* model whose capacity is used to derive the response budget is the model
\* whose name is sent with the LLM call, even if the model configuration
\* returns a different value between two reads.
C17_OneModelPerCall ==
    \A c \in Calls :
        LET t == task[c]
        IN  Sent(t) =>
              /\ t.max_response_words =
                    max_words(t.model, None, unwrap_or_default(t.loaded).context_tokens)
              /\ t.request_model = name(t.model)
              /\ t.log[2][2] = name(t.model)

\* --------------------------------------------------------------- C18
\* a step of call c
StepOf(c) ==
    \/ LoadFails(c) \/ LoadThenBadRole(c) \/ LoadThenOverflow(c)
    \/ \E m2 \in ModelSet : LoadThenSend(c, m2)
    \/ LLMFails(c) \/ LLMNoChoice(c) \/ LLMNoContent(c)
    \/ \E content \in Replies : LLMReplies(c, content)
    \/ SaveFails(c) \/ SaveReturns(c) \/ Return(c)

\* C18: the shared LLM client is only ever taken under a read lock, so any
\* number of prompt calls hold it in their LLM step at once; no call waits
\* for another to release the client, and no interleaving of calls deadlocks.
C18_ClientNeverBlocks ==
    /\ client = {c \in Calls : task[c].pc = "llm"}
    /\ \A c \in Calls :
          (task[c].pc = "load" /\ ~HasOtherRole(store[LoadKey(task[c])])) =>
              ENABLED (\E m2 \in ModelSet : LoadThenSend(c, m2))
    /\ \A c \in Calls : InFlight(c) => ENABLED StepOf(c)

\* every slot is in its LLM step, each holding a read guard of the client
C18_Witness ==
    /\ \A c \in Calls : task[c].pc = "llm"
    /\ client = Calls
    /\ Cardinality(client) >= 2

\* --------------------------------------------------------------- C19
\* C19: starting from empty storage, under every interleaving of prompt
\* calls, succeeding or failing, every persisted segment has an even number
\* of messages that strictly alternate user, assistant, starting with user;
\* neither the system directive nor the budget instruction is persisted, and
\* no user message is persisted without its reply.
C19_StoredTurnsAlternate ==
    (\A i \in Ids : store0[i] = None) =>
        \A i \in Ids :
            LET ms == Messages(store[i])
            IN  /\ Len(ms) % 2 = 0
                /\ store[i] # None => Len(ms) >= 2
                /\ \A k \in 1..Len(ms) :
                      /\ ms[k].role = (IF k % 2 = 1 THEN "user" ELSE "assistant")
                      /\ ms[k].role # "system"
                      /\ ms[k].content \notin Systems
                      /\ ms[k].content \in (IF k % 2 = 1 THEN Msgs ELSE Replies)

\* from empty storage, two calls that overlapped on one id have both saved,
\* the second on top of the first
C19_Witness ==
    /\ \A i \in Ids : store0[i] = None
    /\ raced["A"]
    /\ Len(hist["A"]) = 2
    /\ Len(Messages(store["A"])) = 4
    /\ Messages(store["A"])[3].role = "user"
    /\ Messages(store["A"])[4].role = "assistant"

====
